---------------------------- MODULE Spec2Model ----------------------------
(***************************************************************************)
(* A model of the jvmti binding layer: the environment contract (trait     *)
(* JVMTI), its emulated implementation (JVMEmulator, emulator.rs), its     *)
(* native implementation (JVMTIEnvironment, environment/jvmti.rs) and the  *)
(* string marshalling helper (util.rs).                                    *)
(*                                                                         *)
(* Rust values are modelled as follows.                                    *)
(*   Result<T, NativeError>  <<"Ok", v>> or <<"Err", e>>                   *)
(*   Option<NativeError>     <<"None">> or <<"Some", e>>                   *)
(*   a panic (unwrap)        <<"Panic", what>>                             *)
(*   any other return value  <<"Val", v>>                                  *)
(*   Option<fn(..)>          a handler name, or the string "None"          *)
(*   String                  the sequence of its UTF-8 bytes               *)
(*   a raw string pointer    [null, bytes]: null, or the bytes it points to *)
(***************************************************************************)
EXTENDS Integers, Sequences, FiniteSets, TLC

VARIABLES
    \* JVMEmulator (emulator.rs 16-20)
    capabilities,   \* JVMEmulator.capabilities
    callbacks,      \* JVMEmulator.callbacks
    events,         \* JVMEmulator.events : HashMap<VMEvent, bool>
    emu_call,       \* the emulator operation last run and its arguments
    emu_ret,        \* what that operation returned
    requested,      \* history: every capability passed to add_capabilities
    latest,         \* history (SpecEvents): the registry of the last set_event_callbacks, if any
    superseded,     \* history (SpecEvents): the method-entry slots of the registries before it
    \* The virtual machine behind the JVMTIEnvPtr of JVMTIEnvironment
    jvmti,          \* JVMTIEnvironment.jvmti: the native functions the table holds
    jvm_caps,       \* capabilities the VM has granted
    jvm_events,     \* notification mode per event kind
    jvm_callbacks,  \* the native callback table last installed
    jvm_heap,       \* blocks handed out by Allocate, not yet released
    registered,     \* the process-wide handler slots the register_* calls fill
    sec_pc,         \* set_event_callbacks in progress: handlers registered so far
    sec_new,        \* the registry passed to the call in progress
    sec_old,        \* history: the handlers events could reach when that call began
    nat_call,       \* the native operation last run and its arguments
    nat_ret,        \* what that operation returned
    fired           \* the event a native thread fired last, and the handler it reached

emuVars == <<capabilities, callbacks, events, emu_call, emu_ret, requested,
             latest, superseded>>
natVars == <<jvmti, jvm_caps, jvm_events, jvm_callbacks, jvm_heap, registered,
             sec_pc, sec_new, sec_old, nat_call, nat_ret, fired>>
vars == <<capabilities, callbacks, events, emu_call, emu_ret, requested,
          latest, superseded,
          jvmti, jvm_caps, jvm_events, jvm_callbacks, jvm_heap, registered,
          sec_pc, sec_new, sec_old, nat_call, nat_ret, fired>>

---------------------------------------------------------------------------
(* Bounds of the model *)

\* how many event kinds the notification-mode calls and the firing range over
MaxKinds == 2
\* how many capabilities a capability set is given
MaxCaps == 2
\* the largest element count a native array call reports
MaxCount == 3
\* the largest length passed to allocate
MaxLen == 2
\* how many blocks the native allocator hands out
MaxBlocks == 2

---------------------------------------------------------------------------
(* Values *)

Ok(v) == <<"Ok", v>>
Err(e) == <<"Err", e>>
None == <<"None">>
Some(e) == <<"Some", e>>
Panic(what) == <<"Panic", what>>
Val(v) == <<"Val", v>>
Unit == "()"

\* An emulator call, and a native call with what the native function gave
\* back and the offsets read through the array pointer it returned.
Call(op, arg) == [op |-> op, arg |-> arg]
NCall(op, arg, native, reads) ==
    [op |-> op, arg |-> arg, native |-> native, reads |-> reads]

\* The handler slots of EventCallbacks, in the order set_event_callbacks
\* registers them.
EventKinds ==
    << "vm_init", "vm_start", "vm_death", "vm_object_alloc", "method_entry",
       "method_exit", "thread_start", "thread_end", "exception",
       "exception_catch", "monitor_wait", "monitor_waited",
       "monitor_contended_enter", "monitor_contended_entered", "field_access",
       "field_modification", "garbage_collection_start",
       "garbage_collection_finish", "class_file_load_hook" >>

Kinds == {EventKinds[i] : i \in 1..Len(EventKinds)}

\* The kinds the model enables, disables and fires, method entry first.
KindPool == << "method_entry", "vm_init", "class_file_load_hook", "method_exit" >>
TestedKinds == {KindPool[i] : i \in 1..MaxKinds}

Handlers == {"h1", "h2"}

\* EventCallbacks::new(): no handler in any slot.
EventCallbacks_new == [k \in Kinds |-> "None"]

WithHandlers(slots) ==
    [k \in Kinds |-> IF k \in DOMAIN slots THEN slots[k] ELSE "None"]

\* The registries passed to set_event_callbacks.
Registries ==
    { EventCallbacks_new,
      WithHandlers([method_entry |-> "h1"]),
      WithHandlers([vm_init |-> "h2", method_entry |-> "h2"]),
      WithHandlers([vm_init |-> "h1", class_file_load_hook |-> "h1"]) }

CapPool == << "can_generate_method_entry_events", "can_tag_objects",
              "can_redefine_classes" >>
CapNames == {CapPool[i] : i \in 1..MaxCaps}

CapabilitySets == [CapNames -> BOOLEAN]

\* Capabilities::new(): every capability false.
Capabilities_new == [c \in CapNames |-> FALSE]

\* Capabilities::merge: a new set, OR-ing every field.
merge(a, b) == [c \in CapNames |-> a[c] \/ b[c]]

\* The capabilities that are true in a set.
Granted(caps) == {c \in CapNames : caps[c]}

MethodIds == {1, 2}
ThreadIds == {1, 2}
ClassIds == {1, 2}
\* MethodInvocationEvent: the method and the thread of an invocation.
MethodInvocationEvents == [method_id : MethodIds, thread : ThreadIds]

\* JVMTIClassDefinition sequences: none, one, and two (class, bytes) pairs.
ClassDefinitions ==
    { << >>,
      << [class |-> 1, class_data |-> << 202, 254 >>] >>,
      << [class |-> 1, class_data |-> << 202, 254 >>],
         [class |-> 2, class_data |-> << >>] >> }
ClassLists == { << >>, << 1 >>, << 2, 1 >> }

---------------------------------------------------------------------------
(* JVMEmulator: impl JVMTI for JVMEmulator.  Each operation constrains the *)
(* emulator's variables only.                                              *)

JVMEmulator_new ==
    /\ capabilities = Capabilities_new
    /\ callbacks = EventCallbacks_new
    /\ events = << >>
    /\ emu_call = Call("new", Unit)
    /\ emu_ret = Val(Unit)
    /\ requested = {}
    /\ latest = << >>
    /\ superseded = {}

\* The operations that leave the emulator's fields alone.
EmuReturns(op, arg, ret) ==
    /\ emu_call' = Call(op, arg)
    /\ emu_ret' = ret
    /\ UNCHANGED <<capabilities, callbacks, events, requested, latest, superseded>>

\* A faulty emit_method_entry, which hands the handler the emitted method on
\* thread 1 whatever thread the event names.
Mutant_emu_emit_method_entry(event) ==
    EmuReturns("emit_method_entry", event,
               Val(IF callbacks["method_entry"] # "None"
                   THEN << <<callbacks["method_entry"],
                             [method_id |-> event.method_id, thread |-> 1]>> >>
                   ELSE << >>))

\* emit_method_entry: the handler, if any, is called with the event.  The
\* return value lists the handler invocations made.
JVMEmulator_emit_method_entry(event) ==
    EmuReturns("emit_method_entry", event,
               Val(IF callbacks["method_entry"] # "None"
                   THEN << <<callbacks["method_entry"], event>> >>
                   ELSE << >>))

JVMEmulator_get_version_number ==
    EmuReturns("get_version_number", Unit, Val("VersionNumber::unknown"))

JVMEmulator_get_all_threads ==
    EmuReturns("get_all_threads", Unit, Err("NotAvailable"))

JVMEmulator_get_class_loader_loaded_classes(class_loader) ==
    EmuReturns("get_class_loader_loaded_classes", class_loader, Err("NotAvailable"))

JVMEmulator_retransform_classes(classes) ==
    EmuReturns("retransform_classes", classes, Err("NotAvailable"))

JVMEmulator_get_loaded_classes ==
    EmuReturns("get_loaded_classes", Unit, Err("NotAvailable"))

JVMEmulator_redefine_classes(class_definitions) ==
    EmuReturns("redefine_classes", class_definitions, Err("NotAvailable"))

\* A faulty add_capabilities, which stores the new set in place of the merged
\* one.
Mutant_emu_add_capabilities(new_capabilities) ==
    /\ capabilities' = new_capabilities
    /\ emu_call' = Call("add_capabilities", new_capabilities)
    /\ emu_ret' = Ok(new_capabilities)
    /\ requested' = requested \cup Granted(new_capabilities)
    /\ UNCHANGED <<callbacks, events, latest, superseded>>

JVMEmulator_add_capabilities(new_capabilities) ==
    LET merged == merge(capabilities, new_capabilities) IN
    /\ capabilities' = merged
    /\ emu_call' = Call("add_capabilities", new_capabilities)
    /\ emu_ret' = Ok(merged)
    /\ requested' = requested \cup Granted(new_capabilities)
    /\ UNCHANGED <<callbacks, events, latest, superseded>>

JVMEmulator_get_capabilities ==
    EmuReturns("get_capabilities", Unit, Val(capabilities))

\* A faulty set_event_callbacks, which keeps the old handler of every kind
\* the new registry has none for.
Mutant_emu_set_event_callbacks(cbs) ==
    /\ callbacks' = [k \in Kinds |-> IF cbs[k] # "None" THEN cbs[k] ELSE callbacks[k]]
    /\ emu_call' = Call("set_event_callbacks", cbs)
    /\ emu_ret' = None
    /\ UNCHANGED <<capabilities, events, requested>>

JVMEmulator_set_event_callbacks(cbs) ==
    /\ callbacks' = cbs
    /\ emu_call' = Call("set_event_callbacks", cbs)
    /\ emu_ret' = None
    /\ UNCHANGED <<capabilities, events, requested>>

\* HashMap::insert: the key is added or its value replaced.
insert(map, key, value) ==
    [k \in DOMAIN map \cup {key} |-> IF k = key THEN value ELSE map[k]]

\* A faulty set_event_notification_mode, which sets every kind of the table.
Mutant_emu_set_event_notification_mode(event, mode) ==
    /\ events' = [k \in DOMAIN events \cup {event} |-> mode]
    /\ emu_call' = Call("set_event_notification_mode", <<event, mode>>)
    /\ emu_ret' = None
    /\ UNCHANGED <<capabilities, callbacks, requested, latest, superseded>>

JVMEmulator_set_event_notification_mode(event, mode) ==
    /\ events' = insert(events, event, mode)
    /\ emu_call' = Call("set_event_notification_mode", <<event, mode>>)
    /\ emu_ret' = None
    /\ UNCHANGED <<capabilities, callbacks, requested, latest, superseded>>

JVMEmulator_get_thread_info(thread_id) ==
    EmuReturns("get_thread_info", thread_id, Err("NotImplemented"))

JVMEmulator_get_method_declaring_class(method_id) ==
    EmuReturns("get_method_declaring_class", method_id, Err("NotImplemented"))

\* MethodSignature::new("".to_string()) for method 0x01.
JVMEmulator_get_method_name(method_id) ==
    EmuReturns("get_method_name", method_id,
               IF method_id = 1 THEN Ok(<< >>) ELSE Err("NotImplemented"))

JVMEmulator_get_class_signature(class_id) ==
    EmuReturns("get_class_signature", class_id, Err("NotImplemented"))

\* MemoryAllocation { ptr: null_mut(), len }: the null pointer is address 0.
JVMEmulator_allocate(len) ==
    EmuReturns("allocate", len, Ok([ptr |-> 0, len |-> len]))

JVMEmulator_deallocate ==
    EmuReturns("deallocate", Unit, Val(Unit))

---------------------------------------------------------------------------
(* Marshalling: status translation, strings, type descriptors, arrays *)

\* wrap_error: the typed error of a native status code.  Every code has one;
\* the codes no kind is named for are UnknownError.
wrap_error(code) ==
    CASE code = 0 -> "NoError"
      [] code = 98 -> "NotAvailable"
      [] code = 110 -> "OutOfMemory"
      [] OTHER -> "UnknownError"

\* The status codes the native functions of the model return.
StatusCodes == {0, 98, 7}

\* Text as the bytes of its ASCII characters.
NULL_TEXT == << 40, 78, 85, 76, 76, 41 >>                       \* "(NULL)"
UTF8_ERROR_TEXT == << 40, 85, 84, 70, 56, 45, 69, 82, 82, 79, 82, 41 >>
                                                                \* "(UTF8-ERROR)"

Cont(b) == b >= 128 /\ b <= 191

\* CStr::to_str: whether the bytes are well-formed UTF-8 (no overlong forms,
\* no surrogates, nothing above U+10FFFF).
RECURSIVE ValidUtf8(_)
ValidUtf8(bytes) ==
    LET n == Len(bytes)
        b1 == bytes[1]
        rest(k) == SubSeq(bytes, k + 1, n)
    IN  IF n = 0 THEN TRUE
        ELSE IF b1 <= 127 THEN ValidUtf8(rest(1))
        ELSE IF b1 >= 194 /\ b1 <= 223
             THEN n >= 2 /\ Cont(bytes[2]) /\ ValidUtf8(rest(2))
        ELSE IF b1 >= 224 /\ b1 <= 239
             THEN /\ n >= 3
                  /\ Cont(bytes[2]) /\ Cont(bytes[3])
                  /\ (b1 = 224 => bytes[2] >= 160)
                  /\ (b1 = 237 => bytes[2] <= 159)
                  /\ ValidUtf8(rest(3))
        ELSE IF b1 >= 240 /\ b1 <= 244
             THEN /\ n >= 4
                  /\ Cont(bytes[2]) /\ Cont(bytes[3]) /\ Cont(bytes[4])
                  /\ (b1 = 240 => bytes[2] >= 144)
                  /\ (b1 = 244 => bytes[2] <= 143)
                  /\ ValidUtf8(rest(4))
        ELSE FALSE

\* A raw string: the null pointer, or a pointer to bytes and a terminator.
NullString == [null |-> TRUE, bytes |-> << >>]
StringAt(bytes) == [null |-> FALSE, bytes |-> bytes]

stringify(input) ==
    IF ~input.null
    THEN IF ValidUtf8(input.bytes) THEN input.bytes ELSE UTF8_ERROR_TEXT
    ELSE NULL_TEXT

NoType == <<"None">>

\* JavaType::parse: the structured type of a descriptor, or None when the
\* text is no descriptor.  B C D F I J S Z V are the primitive types, L the
\* class types, [ the array types.
RECURSIVE JavaType_parse(_)
JavaType_parse(signature) ==
    IF Len(signature) = 0 THEN NoType
    ELSE IF Len(signature) = 1
         THEN IF signature[1] \in {66, 67, 68, 70, 73, 74, 83, 90, 86}
              THEN <<"Primitive", signature[1]>>
              ELSE NoType
    ELSE IF signature[1] = 91
         THEN LET item == JavaType_parse(Tail(signature))
              IN  IF item = NoType THEN NoType ELSE <<"Array", item>>
    ELSE IF signature[1] = 76 THEN <<"Class", signature>>
    ELSE NoType

\* The raw strings the native functions hand back, each with whether its
\* bytes are well-formed UTF-8.
StringSamples ==
    { [raw |-> << >>, valid |-> TRUE],
      [raw |-> << 73 >>, valid |-> TRUE],                       \* "I"
      [raw |-> << 76, 65, 59 >>, valid |-> TRUE],               \* "LA;"
      [raw |-> << 91, 73 >>, valid |-> TRUE],                   \* "[I"
      [raw |-> << 195, 169 >>, valid |-> TRUE],                 \* U+00E9
      [raw |-> << 226, 130, 172 >>, valid |-> TRUE],            \* U+20AC
      [raw |-> << 240, 159, 152, 128 >>, valid |-> TRUE],       \* U+1F600
      [raw |-> NULL_TEXT, valid |-> TRUE],
      [raw |-> << 255 >>, valid |-> FALSE],
      [raw |-> << 128 >>, valid |-> FALSE],                     \* stray continuation
      [raw |-> << 76, 195 >>, valid |-> FALSE],                 \* cut short
      [raw |-> << 192, 128 >>, valid |-> FALSE],                \* overlong
      [raw |-> << 76, 237, 160, 128, 59 >>, valid |-> FALSE] }  \* surrogate

RawStrings == {NullString} \cup {StringAt(s.raw) : s \in StringSamples}

\* ptr.read() at an offset of a native array; past its end the read is out of
\* bounds and gives whatever lies there, here -1.
ReadAt(array, offset) ==
    IF offset < Len(array) THEN array[offset + 1] ELSE -1

\* A faulty loop, over 0..=count.
RECURSIVE Mutant_Drain(_, _, _, _)
Mutant_Drain(i, count, array, acc) ==
    IF i > count THEN acc
    ELSE Mutant_Drain(i + 1, count, array,
                      [items |-> Append(acc.items, ReadAt(array, i)),
                       reads |-> Append(acc.reads, i)])

\* for _ in 0..count { read; ptr = ptr.add(1); push }: the items pushed and
\* the offsets read, from iteration i on.
RECURSIVE Drain(_, _, _, _)
Drain(i, count, array, acc) ==
    IF i >= count THEN acc
    ELSE Drain(i + 1, count, array,
               [items |-> Append(acc.items, ReadAt(array, i)),
                reads |-> Append(acc.reads, i)])

NoItems == [items |-> << >>, reads |-> << >>]

RECURSIVE SeqsUpTo(_, _)
SeqsUpTo(S, n) ==
    IF n = 0 THEN {<< >>}
    ELSE SeqsUpTo(S, n - 1) \cup [1..n -> S]

\* What a native array call gives back: a count and an array of that many
\* elements.
NativeArrays(S) == {[count |-> Len(a), array |-> a] : a \in SeqsUpTo(S, MaxCount)}

---------------------------------------------------------------------------
(* JVMTIEnvironment: impl JVMTI for JVMTIEnvironment.  Each operation       *)
(* constrains the native side's variables only.  status is the code the    *)
(* native function returns, the arguments after it what it stores through   *)
(* its out-pointers.                                                        *)

\* The entries of the native function table the environment calls.
NativeFunctions ==
    { "GetVersionNumber", "GetLoadedClasses", "GetClassLoaderClasses",
      "RetransformClasses", "RedefineClasses", "GetAllThreads",
      "AddCapabilities", "GetCapabilities", "SetEventCallbacks",
      "SetEventNotificationMode", "GetThreadInfo", "GetMethodDeclaringClass",
      "GetMethodName", "GetClassSignature", "Allocate" }

\* The function tables of the model: a complete one, and one of a VM that
\* lacks some entries.
FunctionTables ==
    { NativeFunctions,
      NativeFunctions \ {"GetThreadInfo", "GetClassSignature", "GetCapabilities"} }

\* The operations that leave the native side's state alone.
NatReturns(op, arg, native, reads, ret) ==
    /\ nat_call' = NCall(op, arg, native, reads)
    /\ nat_ret' = ret
    /\ UNCHANGED <<jvmti, jvm_caps, jvm_events, jvm_callbacks, jvm_heap,
                   registered, sec_pc, sec_new, sec_old, fired>>

\* `x as u32` of a 32-bit signed x, as the two 16-bit halves of the result
\* (high, low): a negative x wraps around.
as_u32(x) ==
    << IF x >= 0 THEN x \div 65536 ELSE (x \div 65536) + 65536, x % 65536 >>

\* Option::unwrap on a table entry that is absent.
Unwrapped(fn) == Panic(<<"unwrap", fn>>)

JVMTIEnvironment_get_version_number(version) ==
    NatReturns("get_version_number", Unit, [version |-> version], << >>,
               IF "GetVersionNumber" \notin jvmti
               THEN Unwrapped("GetVersionNumber")
               ELSE Val(<<"VersionNumber::from_u32", as_u32(version)>>))

\* get_loaded_classes, get_class_loader_loaded_classes and get_all_threads
\* share one shape: the native call, then the draining loop.
DrainCall(op, fn, arg, status, out) ==
    IF fn \notin jvmti
    THEN NatReturns(op, arg, [status |-> status], << >>, Unwrapped(fn))
    ELSE IF wrap_error(status) = "NoError"
    THEN LET drained == Drain(0, out.count, out.array, NoItems)
         IN  NatReturns(op, arg,
                        [status |-> status, count |-> out.count, array |-> out.array],
                        drained.reads, Ok(drained.items))
    ELSE NatReturns(op, arg, [status |-> status], << >>, Err(wrap_error(status)))

JVMTIEnvironment_get_loaded_classes(status, out) ==
    DrainCall("get_loaded_classes", "GetLoadedClasses", Unit, status, out)

JVMTIEnvironment_get_class_loader_loaded_classes(class_loader, status, out) ==
    DrainCall("get_class_loader_loaded_classes", "GetClassLoaderClasses",
              class_loader, status, out)

JVMTIEnvironment_get_all_threads(status, out) ==
    DrainCall("get_all_threads", "GetAllThreads", Unit, status, out)

\* The operations that hand the VM an array and return its status.
StatusCall(op, fn, arg, status, passed) ==
    NatReturns(op, arg, [status |-> status, passed |-> passed], << >>,
               IF fn \notin jvmti THEN Unwrapped(fn)
               ELSE IF wrap_error(status) = "NoError" THEN Ok(Unit)
               ELSE Err(wrap_error(status)))

JVMTIEnvironment_retransform_classes(classes, status) ==
    LET class_count == Len(classes)
    IN  StatusCall("retransform_classes", "RetransformClasses", classes, status,
                   <<class_count, classes>>)

\* Every definition becomes a native one: the class, the byte count, the bytes.
JVMTIEnvironment_redefine_classes(class_definitions, status) ==
    LET classes_count == Len(class_definitions)
        jvmti_class_definitions ==
            [i \in 1..Len(class_definitions) |->
                [klass |-> class_definitions[i].class,
                 class_byte_count |-> Len(class_definitions[i].class_data),
                 class_bytes |-> class_definitions[i].class_data]]
    IN  StatusCall("redefine_classes", "RedefineClasses", class_definitions, status,
                   <<classes_count, jvmti_class_definitions>>)

\* An absent GetThreadInfo entry is matched, not unwrapped.  The loader
\* handle is turned into a reference (&mut *) without a null test: for a
\* null handle (address 0) that has no defined behaviour, and a build either
\* carries the address through or, checking the pointer, panics.
JVMTIEnvironment_get_thread_info(thread_id, status, info, checked) ==
    IF "GetThreadInfo" \in jvmti
    THEN IF wrap_error(status) = "NoError"
         THEN NatReturns("get_thread_info", thread_id,
                         [status |-> status, info |-> info], << >>,
                         IF info.context_class_loader = 0 /\ checked
                         THEN Panic(<<"null pointer dereference">>)
                         ELSE Ok([id |-> thread_id,
                                  name |-> stringify(info.name),
                                  priority |-> as_u32(info.priority),
                                  is_daemon |-> info.is_daemon > 0,
                                  context_class_loader |-> info.context_class_loader]))
         ELSE NatReturns("get_thread_info", thread_id, [status |-> status], << >>,
                         Err(wrap_error(status)))
    ELSE NatReturns("get_thread_info", thread_id, [status |-> status], << >>,
                    Err("NoError"))

JVMTIEnvironment_get_method_declaring_class(method_id, status, class) ==
    IF "GetMethodDeclaringClass" \notin jvmti
    THEN NatReturns("get_method_declaring_class", method_id, [status |-> status],
                    << >>, Unwrapped("GetMethodDeclaringClass"))
    ELSE IF wrap_error(status) = "NoError"
    THEN NatReturns("get_method_declaring_class", method_id,
                    [status |-> status, class |-> class], << >>, Ok(class))
    ELSE NatReturns("get_method_declaring_class", method_id, [status |-> status],
                    << >>, Err(wrap_error(status)))

JVMTIEnvironment_get_method_name(method_id, status, name) ==
    IF "GetMethodName" \notin jvmti
    THEN NatReturns("get_method_name", method_id, [status |-> status], << >>,
                    Unwrapped("GetMethodName"))
    ELSE IF wrap_error(status) = "NoError"
    THEN NatReturns("get_method_name", method_id,
                    [status |-> status, string |-> name], << >>,
                    Ok(stringify(name)))
    ELSE NatReturns("get_method_name", method_id, [status |-> status], << >>,
                    Err(wrap_error(status)))

\* JavaType::parse(..).unwrap() panics on text that is no descriptor.
JVMTIEnvironment_get_class_signature(class_id, status, sig) ==
    IF "GetClassSignature" \notin jvmti
    THEN NatReturns("get_class_signature", class_id, [status |-> status], << >>,
                    Unwrapped("GetClassSignature"))
    ELSE IF wrap_error(status) = "NoError"
    THEN LET type == JavaType_parse(stringify(sig))
         IN  NatReturns("get_class_signature", class_id,
                        [status |-> status, string |-> sig], << >>,
                        IF type = NoType THEN Panic(<<"unwrap", "JavaType::parse">>)
                        ELSE Ok(type))
    ELSE NatReturns("get_class_signature", class_id, [status |-> status], << >>,
                    Err(wrap_error(status)))

\* Capabilities::to_native and from_native: the native capability vector is
\* the set of the capabilities whose bit is set.
to_native(caps) == {c \in CapNames : caps[c]}
from_native(native_caps) == [c \in CapNames |-> c \in native_caps]

\* GetCapabilities fills the vector with what the VM has granted.
JVMTIEnvironment_get_capabilities ==
    NatReturns("get_capabilities", Unit, [status |-> 0], << >>,
               IF "GetCapabilities" \notin jvmti
               THEN Unwrapped("GetCapabilities")
               ELSE Val(from_native(jvm_caps)))

\* A faulty add_capabilities, which returns the capabilities whatever the
\* status.
Mutant_env_add_capabilities(new_capabilities, status) ==
    /\ "AddCapabilities" \in jvmti /\ "GetCapabilities" \in jvmti
    /\ jvm_caps' = IF wrap_error(status) = "NoError"
                   THEN jvm_caps \cup to_native(new_capabilities)
                   ELSE jvm_caps
    /\ nat_call' = NCall("add_capabilities", new_capabilities,
                         [status |-> status], << >>)
    /\ nat_ret' = Ok(from_native(jvm_caps'))
    /\ UNCHANGED <<jvmti, jvm_events, jvm_callbacks, jvm_heap, registered,
                   sec_pc, sec_new, sec_old, fired>>

\* AddCapabilities grants every capability asked for or, failing, none.
JVMTIEnvironment_add_capabilities(new_capabilities, status) ==
    LET native_caps == to_native(new_capabilities)
        granted == "AddCapabilities" \in jvmti /\ wrap_error(status) = "NoError"
    IN  /\ jvm_caps' = IF granted THEN jvm_caps \cup native_caps ELSE jvm_caps
        /\ nat_call' = NCall("add_capabilities", new_capabilities,
                             [status |-> status], << >>)
        /\ nat_ret' =
              IF "AddCapabilities" \notin jvmti THEN Unwrapped("AddCapabilities")
              ELSE IF wrap_error(status) = "NoError"
              THEN IF "GetCapabilities" \notin jvmti
                   THEN Unwrapped("GetCapabilities")
                   ELSE Ok(from_native(jvm_caps'))
              ELSE Err(wrap_error(status))
        /\ UNCHANGED <<jvmti, jvm_events, jvm_callbacks, jvm_heap, registered,
                       sec_pc, sec_new, sec_old, fired>>

\* register_<kind>_callback: the handler goes into the kind's slot.
register_callback(slots, kind, handler) == [slots EXCEPT ![kind] = handler]

\* The slots after the first n register_* calls of set_event_callbacks.
RECURSIVE RegisterFirst(_, _, _)
RegisterFirst(slots, cbs, n) ==
    IF n = 0 THEN slots
    ELSE register_callback(RegisterFirst(slots, cbs, n - 1),
                           EventKinds[n], cbs[EventKinds[n]])

\* registered_callbacks: the native table, an entry for every kind that has
\* a handler registered and the empty entry for every other.
registered_callbacks(slots) == [k \in Kinds |-> slots[k] # "None"]

\* set_event_callbacks run from its first line to its last.
JVMTIEnvironment_set_event_callbacks(cbs, status) ==
    LET slots == RegisterFirst(registered, cbs, Len(EventKinds))
        native_callbacks == registered_callbacks(slots)
        installed == "SetEventCallbacks" \in jvmti /\ wrap_error(status) = "NoError"
    IN  /\ sec_pc = 0
        /\ registered' = slots
        /\ jvm_callbacks' = IF installed THEN native_callbacks ELSE jvm_callbacks
        /\ nat_call' = NCall("set_event_callbacks", cbs, [status |-> status], << >>)
        /\ nat_ret' = IF "SetEventCallbacks" \notin jvmti
                      THEN Unwrapped("SetEventCallbacks")
                      ELSE IF wrap_error(status) = "NoError" THEN None
                      ELSE Some(wrap_error(status))
        /\ UNCHANGED <<jvmti, jvm_caps, jvm_events, jvm_heap,
                       sec_pc, sec_new, sec_old, fired>>

\* The handler an event of each kind reaches: the registered one, if the
\* installed table has an entry for the kind.
Visible == [k \in Kinds |-> IF jvm_callbacks[k] THEN registered[k] ELSE "None"]

\* set_event_callbacks statement by statement, for the events that native
\* threads fire while it runs: the call begins, ...
set_event_callbacks_begin(cbs) ==
    /\ sec_pc = 0
    /\ sec_pc' = 1
    /\ sec_new' = cbs
    /\ sec_old' = Visible
    /\ nat_call' = NCall("set_event_callbacks", cbs, [status |-> 0], << >>)
    /\ nat_ret' = Val("running")
    /\ UNCHANGED <<jvmti, jvm_caps, jvm_events, jvm_callbacks, jvm_heap,
                   registered, fired>>

\* ... registers the next of the 19 handlers, ...
set_event_callbacks_register ==
    /\ sec_pc \in 1..Len(EventKinds)
    /\ registered' = register_callback(registered, EventKinds[sec_pc],
                                       sec_new[EventKinds[sec_pc]])
    /\ sec_pc' = sec_pc + 1
    /\ UNCHANGED <<jvmti, jvm_caps, jvm_events, jvm_callbacks, jvm_heap,
                   sec_new, sec_old, nat_call, nat_ret, fired>>

\* ... and builds the native table and hands it to SetEventCallbacks.
set_event_callbacks_install(status) ==
    LET native_callbacks == registered_callbacks(registered)
        installed == "SetEventCallbacks" \in jvmti /\ wrap_error(status) = "NoError"
    IN  /\ sec_pc = Len(EventKinds) + 1
        /\ sec_pc' = 0
        /\ jvm_callbacks' = IF installed THEN native_callbacks ELSE jvm_callbacks
        /\ nat_call' = NCall("set_event_callbacks", sec_new, [status |-> status], << >>)
        /\ nat_ret' = IF "SetEventCallbacks" \notin jvmti
                      THEN Unwrapped("SetEventCallbacks")
                      ELSE IF wrap_error(status) = "NoError" THEN None
                      ELSE Some(wrap_error(status))
        /\ UNCHANGED <<jvmti, jvm_caps, jvm_events, jvm_heap, registered,
                       sec_new, sec_old, fired>>

\* SetEventNotificationMode(env, mode_i, event, NULL): the VM turns the one
\* kind on (1) or off (0) for all threads.
JVMTIEnvironment_set_event_notification_mode(event, mode, status) ==
    LET mode_i == IF mode THEN 1 ELSE 0
        done == "SetEventNotificationMode" \in jvmti /\ wrap_error(status) = "NoError"
    IN  /\ sec_pc = 0
        /\ jvm_events' = IF done THEN [jvm_events EXCEPT ![event] = (mode_i = 1)]
                         ELSE jvm_events
        /\ nat_call' = NCall("set_event_notification_mode", <<event, mode>>,
                             [status |-> status], << >>)
        /\ nat_ret' = IF "SetEventNotificationMode" \notin jvmti
                      THEN Unwrapped("SetEventNotificationMode")
                      ELSE IF wrap_error(status) = "NoError" THEN None
                      ELSE Some(wrap_error(status))
        /\ UNCHANGED <<jvmti, jvm_caps, jvm_callbacks, jvm_heap, registered,
                       sec_pc, sec_new, sec_old, fired>>

\* A native thread fires an event of a kind that is enabled and has an entry
\* in the installed table; the entry looks up the kind's registered handler
\* and calls it, if there is one.
event_fires(kind) ==
    /\ jvm_events[kind] /\ jvm_callbacks[kind]
    /\ fired' = <<kind, registered[kind]>>
    /\ UNCHANGED <<jvmti, jvm_caps, jvm_events, jvm_callbacks, jvm_heap,
                   registered, sec_pc, sec_new, sec_old, nat_call, nat_ret>>

\* Allocate stores the address of a fresh block on success; the block stays
\* with the VM's allocator until it is released.
JVMTIEnvironment_allocate(len, status) ==
    LET size == len
        ptr == Cardinality(jvm_heap) + 1
        done == "Allocate" \in jvmti /\ wrap_error(status) = "NoError"
    IN  /\ done => Cardinality(jvm_heap) < MaxBlocks
        /\ jvm_heap' = IF done THEN jvm_heap \cup {ptr} ELSE jvm_heap
        /\ nat_call' = NCall("allocate", len, [status |-> status, size |-> size], << >>)
        /\ nat_ret' = IF "Allocate" \notin jvmti THEN Unwrapped("Allocate")
                      ELSE IF wrap_error(status) = "NoError"
                      THEN Ok([ptr |-> ptr, len |-> len])
                      ELSE Err(wrap_error(status))
        /\ UNCHANGED <<jvmti, jvm_caps, jvm_events, jvm_callbacks, registered,
                       sec_pc, sec_new, sec_old, fired>>

\* deallocate has an empty body.
JVMTIEnvironment_deallocate ==
    NatReturns("deallocate", Unit, [status |-> 0], << >>, Val(Unit))

\* JVMTIEnvironment::new over a function table; the VM has granted nothing,
\* enabled nothing and holds no callback table.
JVMTIEnvironment_new(env_ptr) ==
    /\ jvmti = env_ptr
    /\ jvm_caps = {}
    /\ jvm_events = [k \in Kinds |-> FALSE]
    /\ jvm_callbacks = [k \in Kinds |-> FALSE]
    /\ jvm_heap = {}
    /\ registered = EventCallbacks_new
    /\ sec_pc = 0
    /\ sec_new = EventCallbacks_new
    /\ sec_old = EventCallbacks_new
    /\ nat_call = NCall("new", Unit, [status |-> 0], << >>)
    /\ nat_ret = Val(Unit)
    /\ fired = <<"None", "None">>

---------------------------------------------------------------------------
(* Spec: the emulated environment on its own *)

Init == JVMEmulator_new /\ JVMTIEnvironment_new(NativeFunctions)

EmuEmit ==
    /\ \E event \in MethodInvocationEvents : JVMEmulator_emit_method_entry(event)
    /\ UNCHANGED natVars
EmuAddCapabilities ==
    /\ \E nc \in CapabilitySets : JVMEmulator_add_capabilities(nc)
    /\ UNCHANGED natVars
EmuGetCapabilities == JVMEmulator_get_capabilities /\ UNCHANGED natVars
EmuSetEventCallbacks ==
    /\ \E cbs \in Registries : JVMEmulator_set_event_callbacks(cbs)
    /\ UNCHANGED <<latest, superseded>>
    /\ UNCHANGED natVars
EmuSetEventNotificationMode ==
    /\ \E k \in TestedKinds, mode \in BOOLEAN :
          JVMEmulator_set_event_notification_mode(k, mode)
    /\ UNCHANGED natVars
EmuGetVersionNumber == JVMEmulator_get_version_number /\ UNCHANGED natVars
EmuGetAllThreads == JVMEmulator_get_all_threads /\ UNCHANGED natVars
EmuGetClassLoaderLoadedClasses ==
    /\ \E l \in ClassIds : JVMEmulator_get_class_loader_loaded_classes(l)
    /\ UNCHANGED natVars
EmuRetransformClasses ==
    /\ \E classes \in ClassLists : JVMEmulator_retransform_classes(classes)
    /\ UNCHANGED natVars
EmuGetLoadedClasses == JVMEmulator_get_loaded_classes /\ UNCHANGED natVars
EmuRedefineClasses ==
    /\ \E defs \in ClassDefinitions : JVMEmulator_redefine_classes(defs)
    /\ UNCHANGED natVars
EmuGetThreadInfo ==
    /\ \E t \in ThreadIds : JVMEmulator_get_thread_info(t)
    /\ UNCHANGED natVars
EmuGetMethodDeclaringClass ==
    /\ \E m \in MethodIds : JVMEmulator_get_method_declaring_class(m)
    /\ UNCHANGED natVars
EmuGetMethodName ==
    /\ \E m \in MethodIds : JVMEmulator_get_method_name(m)
    /\ UNCHANGED natVars
EmuGetClassSignature ==
    /\ \E c \in ClassIds : JVMEmulator_get_class_signature(c)
    /\ UNCHANGED natVars
EmuAllocate ==
    /\ \E len \in 1..MaxLen : JVMEmulator_allocate(len)
    /\ UNCHANGED natVars
EmuDeallocate == JVMEmulator_deallocate /\ UNCHANGED natVars

Next ==
    \/ EmuEmit
    \/ EmuAddCapabilities
    \/ EmuGetCapabilities
    \/ EmuSetEventCallbacks
    \/ EmuSetEventNotificationMode
    \/ EmuGetVersionNumber
    \/ EmuGetAllThreads
    \/ EmuGetClassLoaderLoadedClasses
    \/ EmuRetransformClasses
    \/ EmuGetLoadedClasses
    \/ EmuRedefineClasses
    \/ EmuGetThreadInfo
    \/ EmuGetMethodDeclaringClass
    \/ EmuGetMethodName
    \/ EmuGetClassSignature
    \/ EmuAllocate
    \/ EmuDeallocate

Spec == Init /\ [][Next]_vars

---------------------------------------------------------------------------
(* SpecNative: the native environment's introspection and redefinition     *)
(* calls, over a complete and an incomplete function table.               *)

\* What GetThreadInfo stores in the info structure.
ThreadInfos ==
    [name : RawStrings, priority : {-1, 5}, is_daemon : {0, 1},
     context_class_loader : {0, 1}]
Versions == {-1, 65538}

InitNative ==
    /\ JVMEmulator_new
    /\ \E env_ptr \in FunctionTables : JVMTIEnvironment_new(env_ptr)

NatGetVersionNumber ==
    /\ \E version \in Versions : JVMTIEnvironment_get_version_number(version)
    /\ UNCHANGED emuVars
NatGetLoadedClasses ==
    /\ \E status \in StatusCodes, out \in NativeArrays(ClassIds) :
          JVMTIEnvironment_get_loaded_classes(status, out)
    /\ UNCHANGED emuVars
NatGetClassLoaderLoadedClasses ==
    /\ \E status \in StatusCodes, out \in NativeArrays(ClassIds) :
          JVMTIEnvironment_get_class_loader_loaded_classes(1, status, out)
    /\ UNCHANGED emuVars
NatGetAllThreads ==
    /\ \E status \in StatusCodes, out \in NativeArrays(ThreadIds) :
          JVMTIEnvironment_get_all_threads(status, out)
    /\ UNCHANGED emuVars
NatRetransformClasses ==
    /\ \E classes \in ClassLists, status \in StatusCodes :
          JVMTIEnvironment_retransform_classes(classes, status)
    /\ UNCHANGED emuVars
NatRedefineClasses ==
    /\ \E defs \in ClassDefinitions, status \in StatusCodes :
          JVMTIEnvironment_redefine_classes(defs, status)
    /\ UNCHANGED emuVars
NatGetThreadInfo ==
    /\ \E t \in ThreadIds, status \in StatusCodes, info \in ThreadInfos,
          checked \in BOOLEAN :
          JVMTIEnvironment_get_thread_info(t, status, info, checked)
    /\ UNCHANGED emuVars
NatGetMethodDeclaringClass ==
    /\ \E m \in MethodIds, status \in StatusCodes, class \in ClassIds :
          JVMTIEnvironment_get_method_declaring_class(m, status, class)
    /\ UNCHANGED emuVars
NatGetMethodName ==
    /\ \E m \in MethodIds, status \in StatusCodes, name \in RawStrings :
          JVMTIEnvironment_get_method_name(m, status, name)
    /\ UNCHANGED emuVars
NatGetClassSignature ==
    /\ \E c \in ClassIds, status \in StatusCodes, sig \in RawStrings :
          JVMTIEnvironment_get_class_signature(c, status, sig)
    /\ UNCHANGED emuVars

NextNative ==
    \/ NatGetVersionNumber
    \/ NatGetLoadedClasses
    \/ NatGetClassLoaderLoadedClasses
    \/ NatGetAllThreads
    \/ NatRetransformClasses
    \/ NatRedefineClasses
    \/ NatGetThreadInfo
    \/ NatGetMethodDeclaringClass
    \/ NatGetMethodName
    \/ NatGetClassSignature

SpecNative == InitNative /\ [][NextNative]_vars

---------------------------------------------------------------------------
(* SpecResources: the native environment's capabilities and allocations *)

NatAddCapabilities ==
    /\ \E nc \in CapabilitySets, status \in StatusCodes :
          JVMTIEnvironment_add_capabilities(nc, status)
    /\ UNCHANGED emuVars
NatGetCapabilities == JVMTIEnvironment_get_capabilities /\ UNCHANGED emuVars
NatAllocate ==
    /\ \E len \in 1..MaxLen, status \in StatusCodes :
          JVMTIEnvironment_allocate(len, status)
    /\ UNCHANGED emuVars
NatDeallocate == JVMTIEnvironment_deallocate /\ UNCHANGED emuVars

NextResources ==
    \/ NatAddCapabilities
    \/ NatGetCapabilities
    \/ NatAllocate
    \/ NatDeallocate

SpecResources == InitNative /\ [][NextResources]_vars

---------------------------------------------------------------------------
(* SpecCallbacks: the native environment's event configuration, with the   *)
(* VM's threads firing events while set_event_callbacks runs.  The         *)
(* configuration calls take &mut self, so they never overlap each other.   *)

CbBegin ==
    /\ \E cbs \in Registries : set_event_callbacks_begin(cbs)
    /\ UNCHANGED emuVars
CbRegister == set_event_callbacks_register /\ UNCHANGED emuVars
CbInstall ==
    /\ \E status \in {0, 98} : set_event_callbacks_install(status)
    /\ UNCHANGED emuVars
CbSetEventNotificationMode ==
    /\ \E k \in TestedKinds, mode \in BOOLEAN :
          JVMTIEnvironment_set_event_notification_mode(k, mode, 0)
    /\ UNCHANGED emuVars
EventFires ==
    /\ \E k \in TestedKinds : event_fires(k)
    /\ UNCHANGED emuVars

NextCallbacks ==
    \/ CbBegin
    \/ CbRegister
    \/ CbInstall
    \/ CbSetEventNotificationMode
    \/ EventFires

SpecCallbacks == Init /\ [][NextCallbacks]_vars

---------------------------------------------------------------------------
(* SpecPair: every operation of the contract run on the emulated and on    *)
(* the native environment in the same step, with the same arguments, the   *)
(* native function reporting success.                                      *)

PairGetVersionNumber ==
    /\ JVMEmulator_get_version_number
    /\ \E version \in Versions : JVMTIEnvironment_get_version_number(version)
PairAddCapabilities ==
    \E nc \in CapabilitySets :
        JVMEmulator_add_capabilities(nc) /\ JVMTIEnvironment_add_capabilities(nc, 0)
PairGetCapabilities ==
    JVMEmulator_get_capabilities /\ JVMTIEnvironment_get_capabilities
PairGetClassLoaderLoadedClasses ==
    \E out \in NativeArrays({1}) :
        /\ JVMEmulator_get_class_loader_loaded_classes(1)
        /\ JVMTIEnvironment_get_class_loader_loaded_classes(1, 0, out)
PairGetLoadedClasses ==
    \E out \in NativeArrays({1}) :
        JVMEmulator_get_loaded_classes /\ JVMTIEnvironment_get_loaded_classes(0, out)
PairSetEventCallbacks ==
    \E cbs \in Registries :
        /\ JVMEmulator_set_event_callbacks(cbs)
        /\ UNCHANGED <<latest, superseded>>
        /\ JVMTIEnvironment_set_event_callbacks(cbs, 0)
PairSetEventNotificationMode ==
    \E k \in {"method_entry"}, mode \in BOOLEAN :
        /\ JVMEmulator_set_event_notification_mode(k, mode)
        /\ JVMTIEnvironment_set_event_notification_mode(k, mode, 0)
PairRedefineClasses ==
    \E defs \in ClassDefinitions :
        JVMEmulator_redefine_classes(defs) /\ JVMTIEnvironment_redefine_classes(defs, 0)
PairRetransformClasses ==
    \E classes \in ClassLists :
        /\ JVMEmulator_retransform_classes(classes)
        /\ JVMTIEnvironment_retransform_classes(classes, 0)
PairGetAllThreads ==
    \E out \in NativeArrays({1}) :
        JVMEmulator_get_all_threads /\ JVMTIEnvironment_get_all_threads(0, out)
PairGetThreadInfo ==
    \E t \in ThreadIds :
        /\ JVMEmulator_get_thread_info(t)
        /\ JVMTIEnvironment_get_thread_info(
              t, 0, [name |-> StringAt(<<73>>), priority |-> 5, is_daemon |-> 0,
                     context_class_loader |-> 1], FALSE)
PairGetMethodDeclaringClass ==
    \E m \in MethodIds :
        /\ JVMEmulator_get_method_declaring_class(m)
        /\ JVMTIEnvironment_get_method_declaring_class(m, 0, 1)
PairGetMethodName ==
    \E m \in MethodIds, name \in {StringAt(<< >>), StringAt(<<73>>)} :
        JVMEmulator_get_method_name(m) /\ JVMTIEnvironment_get_method_name(m, 0, name)
PairGetClassSignature ==
    \E c \in ClassIds, sig \in {StringAt(<<76, 65, 59>>), NullString} :
        /\ JVMEmulator_get_class_signature(c)
        /\ JVMTIEnvironment_get_class_signature(c, 0, sig)
PairAllocate ==
    \E len \in 1..MaxLen :
        JVMEmulator_allocate(len) /\ JVMTIEnvironment_allocate(len, 0)
PairDeallocate == JVMEmulator_deallocate /\ JVMTIEnvironment_deallocate

NextPair ==
    \/ PairGetVersionNumber
    \/ PairAddCapabilities
    \/ PairGetCapabilities
    \/ PairGetClassLoaderLoadedClasses
    \/ PairGetLoadedClasses
    \/ PairSetEventCallbacks
    \/ PairSetEventNotificationMode
    \/ PairRedefineClasses
    \/ PairRetransformClasses
    \/ PairGetAllThreads
    \/ PairGetThreadInfo
    \/ PairGetMethodDeclaringClass
    \/ PairGetMethodName
    \/ PairGetClassSignature
    \/ PairAllocate
    \/ PairDeallocate

SpecPair == Init /\ [][NextPair]_vars


---------------------------------------------------------------------------
(* SpecConfig: the three configuration calls, run on both environments in  *)
(* the same step, over several event kinds.                                *)

ConfigAddCapabilities ==
    \E nc \in CapabilitySets :
        JVMEmulator_add_capabilities(nc) /\ JVMTIEnvironment_add_capabilities(nc, 0)
ConfigSetEventCallbacks ==
    \E cbs \in Registries :
        /\ JVMEmulator_set_event_callbacks(cbs)
        /\ UNCHANGED <<latest, superseded>>
        /\ JVMTIEnvironment_set_event_callbacks(cbs, 0)
ConfigSetEventNotificationMode ==
    \E k \in TestedKinds, mode \in BOOLEAN :
        /\ JVMEmulator_set_event_notification_mode(k, mode)
        /\ JVMTIEnvironment_set_event_notification_mode(k, mode, 0)

NextConfig ==
    \/ ConfigAddCapabilities
    \/ ConfigSetEventCallbacks
    \/ ConfigSetEventNotificationMode

SpecConfig == Init /\ [][NextConfig]_vars

---------------------------------------------------------------------------
(* SpecEvents: the emulated environment's event path, with the registries *)
(* passed to set_event_callbacks kept as history                          *)

\* set_event_callbacks, recording the registry passed and the method-entry
\* slot of the registry it replaces.
EvSetEventCallbacks ==
    /\ \E cbs \in Registries :
          /\ JVMEmulator_set_event_callbacks(cbs)
          /\ latest' = << cbs >>
    /\ superseded' = superseded \cup {latest[i]["method_entry"] : i \in DOMAIN latest}
    /\ UNCHANGED natVars
EvSetEventNotificationMode ==
    /\ \E k \in TestedKinds, mode \in BOOLEAN :
          JVMEmulator_set_event_notification_mode(k, mode)
    /\ UNCHANGED natVars
EvEmit ==
    /\ \E event \in MethodInvocationEvents : JVMEmulator_emit_method_entry(event)
    /\ UNCHANGED natVars

NextEvents ==
    \/ EvSetEventCallbacks
    \/ EvSetEventNotificationMode
    \/ EvEmit

SpecEvents == Init /\ [][NextEvents]_vars

---------------------------------------------------------------------------
(* Properties *)

\* Whether the emulator's notification table has the kind enabled.
IsEnabled(map, kind) == kind \in DOMAIN map /\ map[kind]

Success(ret) == ret[1] \in {"Ok", "None", "Val"}
TypedError(ret) == ret[1] \in {"Err", "Some"}

\* The native function behind each operation that calls exactly one.
NativeFn ==
    [get_loaded_classes |-> "GetLoadedClasses",
     get_class_loader_loaded_classes |-> "GetClassLoaderClasses",
     get_all_threads |-> "GetAllThreads",
     get_thread_info |-> "GetThreadInfo",
     get_method_name |-> "GetMethodName",
     get_class_signature |-> "GetClassSignature"]

\* The native function of the last operation was called and reported success.
NativeSucceeded ==
    /\ nat_call.op \in DOMAIN NativeFn
    /\ NativeFn[nat_call.op] \in jvmti
    /\ nat_call.native.status = 0

\* C1: an event is delivered to a handler if and only if its kind is enabled
\* and a handler is registered for it, whatever the order of the calls that
\* led there: emit_method_entry on the emulated environment delivers exactly
\* when method entry is enabled and has a handler.
C1_EventFiresIffEnabledAndRegistered ==
    emu_call.op = "emit_method_entry" =>
        ( Len(emu_ret[2]) > 0
          <=> ( /\ IsEnabled(events, "method_entry")
                /\ callbacks["method_entry"] # "None" ) )

\* C2: when the native AddCapabilities reports failure, add_capabilities
\* returns a typed error and get_capabilities reports the same set after the
\* call as before it.
C2_FailedAddCapabilitiesChangesNothing ==
    [][ ( /\ nat_call'.op = "add_capabilities"
          /\ "AddCapabilities" \in jvmti
          /\ nat_call'.native.status # 0 )
        => ( /\ nat_ret'[1] = "Err"
             /\ nat_ret'[2] \in {"NotAvailable", "OutOfMemory", "UnknownError"}
             /\ from_native(jvm_caps') = from_native(jvm_caps) ) ]_vars

\* A failed call that asked for a capability the VM has not granted, made
\* when the VM had granted another.
C2_Witness ==
    /\ nat_call.op = "add_capabilities"
    /\ "AddCapabilities" \in jvmti
    /\ nat_call.native.status # 0
    /\ nat_ret[1] = "Err"
    /\ jvm_caps # {}
    /\ \E c \in to_native(nat_call.arg) : c \notin jvm_caps

\* C3: after any sequence of add_capabilities calls on the emulated
\* environment, the stored set, the set the last call returned and the set
\* get_capabilities returns hold exactly the capabilities that were true in
\* some argument.
C3_CapabilitiesAreTheUnionOfRequests ==
    /\ \A c \in CapNames : capabilities[c] <=> c \in requested
    /\ emu_call.op = "add_capabilities" =>
          /\ emu_ret[1] = "Ok"
          /\ \A c \in CapNames : emu_ret[2][c] <=> c \in requested
    /\ emu_call.op = "get_capabilities" =>
          \A c \in CapNames : emu_ret[2][c] <=> c \in requested

\* A call that added a capability to a set that held another one.
C3_Witness ==
    /\ emu_call.op = "add_capabilities"
    /\ Granted(emu_call.arg) # {}
    /\ Granted(emu_call.arg) # requested
    /\ requested = CapNames

\* C4: while set_event_callbacks runs, the handlers that events can reach
\* are either all those of before the call or all those of the registry
\* passed to it.
C4_RegistryReplacementIsAtomic ==
    sec_pc # 0 => (Visible = sec_old \/ Visible = sec_new)

\* C5: no operation returns NoError as its error.
C5_NoErrorNeverReturned ==
    ~(TypedError(nat_ret) /\ nat_ret[2] = "NoError")

\* C6: stringify gives "(NULL)" for the null pointer, "(UTF8-ERROR)" for
\* bytes that are not UTF-8 and the text itself for bytes that are; and
\* get_thread_info, get_method_name and get_class_signature return a success
\* value whenever the native function reports success, whatever string it
\* handed back.  (Threads whose loader handle is null are left aside: what
\* get_thread_info does with them does not depend on the string.)
C6_StringDecodingNeverFailsTheCall ==
    /\ stringify(NullString) = NULL_TEXT
    /\ \A s \in StringSamples :
          stringify(StringAt(s.raw)) = IF s.valid THEN s.raw ELSE UTF8_ERROR_TEXT
    /\ ( /\ nat_call.op \in {"get_thread_info", "get_method_name", "get_class_signature"}
         /\ NativeSucceeded
         /\ nat_call.op = "get_thread_info" =>
               nat_call.native.info.context_class_loader # 0 )
       => nat_ret[1] = "Ok"

DrainOps == {"get_loaded_classes", "get_class_loader_loaded_classes", "get_all_threads"}

\* C7: when the native array call succeeds with count n, the result has
\* exactly n elements, the i-th being the i-th of the native array, and the
\* array is read at the offsets 0 .. n-1 in turn and nowhere else: not at
\* all when n is 0.
C7_ArrayIsDrainedExactly ==
    (nat_call.op \in DrainOps /\ NativeSucceeded) =>
        LET n == nat_call.native.count
        IN  /\ nat_ret[1] = "Ok"
            /\ Len(nat_ret[2]) = n
            /\ \A i \in 1..n : nat_ret[2][i] = nat_call.native.array[i]
            /\ Len(nat_call.reads) = n
            /\ \A i \in 1..n : nat_call.reads[i] = i - 1
            /\ (n = 0 => nat_call.reads = << >>)

\* An array of the largest count, with elements that differ, was drained.
C7_Witness ==
    /\ nat_call.op = "get_loaded_classes"
    /\ NativeSucceeded
    /\ nat_call.native.count = MaxCount
    /\ nat_call.native.array[1] # nat_call.native.array[2]
    /\ nat_ret = Ok(nat_call.native.array)

\* C8, as claimed: for every operation, when the native function reports
\* success the emulated and the native environment both return a success
\* value.
C8_BothReturnSuccess ==
    emu_call.op = nat_call.op => (Success(emu_ret) <=> Success(nat_ret))

\* The operations the emulated environment carries out.
EmulatedOps ==
    { "new", "get_version_number", "add_capabilities", "get_capabilities",
      "set_event_callbacks", "set_event_notification_mode", "allocate",
      "deallocate" }
NotAvailableOps ==
    { "get_all_threads", "get_class_loader_loaded_classes", "retransform_classes",
      "get_loaded_classes", "redefine_classes" }
NotImplementedOps ==
    { "get_thread_info", "get_method_declaring_class", "get_class_signature" }

\* C8, amended: with the native function reporting success, both
\* environments return a success value and leave corresponding state for
\* get_version_number, add_capabilities, get_capabilities,
\* set_event_callbacks, set_event_notification_mode, allocate and deallocate
\* and for get_method_name of method 1; for the other operations the
\* emulated environment returns NotAvailable (the class and thread lists,
\* redefinition, retransformation) or NotImplemented (thread info, declaring
\* class, class signature, the name of any other method), whatever the
\* native one returns.
C8_AgreeWhereTheEmulatorActs ==
    /\ emu_call.op = nat_call.op
    /\ emu_call.op \in EmulatedOps => (Success(emu_ret) /\ Success(nat_ret))
    /\ emu_call.op \in NotAvailableOps => emu_ret = Err("NotAvailable")
    /\ emu_call.op \in NotImplementedOps => emu_ret = Err("NotImplemented")
    /\ emu_call.op = "get_method_name" =>
          /\ emu_ret = IF emu_call.arg = 1 THEN Ok(<< >>) ELSE Err("NotImplemented")
          /\ emu_call.arg = 1 => Success(nat_ret)
    /\ emu_call.op \in {"add_capabilities", "get_capabilities", "set_event_callbacks",
                        "set_event_notification_mode", "deallocate"} =>
          emu_ret = nat_ret
    /\ emu_call.op = "allocate" => emu_ret[2].len = nat_ret[2].len
    /\ to_native(capabilities) = jvm_caps
    /\ callbacks = registered
    /\ \A k \in Kinds : IsEnabled(events, k) <=> jvm_events[k]

\* redefine_classes with two definitions: success on the native environment,
\* NotAvailable on the emulated one.
C8_Witness ==
    /\ emu_call.op = "redefine_classes"
    /\ nat_call.op = "redefine_classes"
    /\ Len(emu_call.arg) = 2
    /\ nat_ret = Ok(Unit)
    /\ emu_ret = Err("NotAvailable")

\* C9: an allocate that succeeds returns the requested length and adds one
\* outstanding block; after an allocate followed by deallocate that block is
\* no longer outstanding; no failing operation frees a block.
C9_AllocateThenDeallocateReleases ==
    [][ /\ ( nat_call'.op = "allocate" /\ nat_ret'[1] = "Ok" ) =>
             /\ nat_ret'[2].len = nat_call'.arg
             /\ jvm_heap' = jvm_heap \cup {nat_ret'[2].ptr}
             /\ nat_ret'[2].ptr \notin jvm_heap
        /\ ( nat_call'.op = "deallocate" /\ nat_call.op = "allocate"
             /\ nat_ret[1] = "Ok" ) =>
             nat_ret[2].ptr \notin jvm_heap'
        /\ ~Success(nat_ret') => jvm_heap \subseteq jvm_heap' ]_vars

\* C10: set_event_notification_mode(kind, enabled) sets the flag of that
\* kind and of no other, leaves the callbacks and the capabilities alone,
\* succeeds with or without a callback for the kind, and run a second time
\* with the same arguments changes nothing.
C10_NotificationModeTogglesOneKind ==
    [][ emu_call'.op = "set_event_notification_mode" =>
          LET kind == emu_call'.arg[1]
              enabled == emu_call'.arg[2]
          IN  /\ nat_call'.op = "set_event_notification_mode"
              /\ DOMAIN events' = DOMAIN events \cup {kind}
              /\ events'[kind] = enabled
              /\ \A k \in DOMAIN events \ {kind} : events'[k] = events[k]
              /\ callbacks' = callbacks
              /\ capabilities' = capabilities
              /\ emu_ret' = None
              /\ jvm_events'[kind] = enabled
              /\ \A k \in Kinds \ {kind} : jvm_events'[k] = jvm_events[k]
              /\ registered' = registered
              /\ jvm_callbacks' = jvm_callbacks
              /\ jvm_caps' = jvm_caps
              /\ nat_ret' = None
              /\ ( /\ emu_call.op = "set_event_notification_mode"
                   /\ emu_call.arg = emu_call'.arg ) =>
                    (events' = events /\ jvm_events' = jvm_events) ]_vars

\* A kind without a callback was enabled while another kind, which has one,
\* was disabled and a capability was held.
C10_Witness ==
    /\ emu_call.op = "set_event_notification_mode"
    /\ emu_call.arg = <<"vm_init", TRUE>>
    /\ callbacks["vm_init"] = "None"
    /\ callbacks["method_entry"] # "None"
    /\ "method_entry" \in DOMAIN events /\ ~events["method_entry"]
    /\ ~jvm_events["method_entry"] /\ jvm_events["vm_init"]
    /\ Granted(capabilities) # {}

\* C11: on the emulated environment, once set_event_callbacks has been called
\* and with method entry enabled, emit_method_entry(event) invokes exactly once
\* the method-entry handler of the registry passed to the most recent
\* set_event_callbacks call, with exactly the emitted method and thread
\* identifiers, and invokes nothing when that registry has no method-entry
\* handler; no handler of an earlier registry is invoked.
C11_EmitReachesTheLatestRegistry ==
    ( /\ emu_call.op = "emit_method_entry"
      /\ IsEnabled(events, "method_entry")
      /\ Len(latest) = 1 )
    => emu_ret = Val(IF latest[1]["method_entry"] # "None"
                     THEN << <<latest[1]["method_entry"], emu_call.arg>> >>
                     ELSE << >>)

\* An event emitted on thread 2 reaches h2, the handler of the latest
\* registry, after registries with handler h1 and with no handler for method
\* entry have been replaced.
C11_Witness ==
    /\ emu_call.op = "emit_method_entry"
    /\ emu_call.arg = [method_id |-> 2, thread |-> 2]
    /\ IsEnabled(events, "method_entry")
    /\ Len(latest) = 1
    /\ latest[1]["method_entry"] = "h2"
    /\ superseded = {"h1", "None"}
    /\ emu_ret = Val(<< <<"h2", [method_id |-> 2, thread |-> 2]>> >>)

=============================================================================
